---- MODULE Spec2Model ----
(***************************************************************************)
(* CannonShooter: the entity simulation core of src/src/main.js,           *)
(* projectile.js, targets.js, treasures.js, input.js and collision.js as   *)
(* a state machine.  One animation frame is the sequence of calls made by  *)
(* animate/updateGame; every call is one action and pc is the position     *)
(* inside the frame.  DOM events and the passing of wall-clock time only   *)
(* happen between frames (pc = "idle"), as in the single-threaded host.    *)
(*                                                                         *)
(* Units.  Time is counted in steps of 1/UnitsPerSecond s, velocity in     *)
(* 1/VelPerMps m/s and height in 1/PosPerMeter m, so that                  *)
(* velocity += g*dt; position += velocity*dt is exact integer arithmetic.  *)
(*                                                                         *)
(* Horizontal geometry (the x/z coordinates of ships, chests and shots,    *)
(* and the Box3 bounds three.js computes) is the environment: each         *)
(* geometric test the code makes has its outcome drawn as an input of the  *)
(* action that makes it.  Heights, velocities, clocks, flags, counters     *)
(* and the collections are state and follow the code.                      *)
(***************************************************************************)
EXTENDS Integers, Sequences, FiniteSets, TLC

\* ---------------------------------------------------------------- units
UnitsPerSecond == 2
VelPerMps      == 10
PosPerMeter    == VelPerMps * UnitsPerSecond

\* --------------------------------------------------------------- bounds
MaxTime        == 4     \* Spec: the wall clock stops passing here
SiegeTime      == 16    \* SpecSiege, SpecFlight: the wall clock stops here
MaxDelta       == 2     \* longest gap between two frames, in time units
MaxRounds      == 2     \* rounds played (restarts + 1)
MaxPresses     == 1     \* presses of the mouse button
TreasureCount  == 1     \* chests spawned (TREASURE_COUNT, reduced)
ShipsPerTreasure == 2   \* guards per chest (SHIPS_PER_TREASURE, reduced)
SiegeShips     == 3     \* guards per chest in SpecSiege
MaxDots        == 103   \* SpecLab: dots laid by the projectile on the bench
DropHeight     == 2000  \* SpecLab: height the projectile is dropped from
MaxCoord       == 1     \* SpecLab: coordinates of centers and boxes
MaxRadius      == 2     \* SpecLab: sphere radii

\* ---------------------------------------------------- program constants
GAME_DURATION       == 60      \* s
MIN_POWER           == 10      \* m/s
MAX_POWER           == 40      \* m/s
MAX_HEALTH          == 4
GRAVITY_Y           == -98     \* -9.8 m/s^2, in tenths
MAX_LIFETIME        == 5       \* s
TRAIL_FADE_DURATION == 1       \* s
TRAIL_MAX_POINTS    == 100
ROTATION_SPEED      == 60      \* degrees per second
MIN_PITCH           == 0       \* input.js, degrees
MAX_PITCH           == 90
CANNON_MIN_PITCH    == 5       \* cannon.js, degrees
CANNON_MAX_PITCH    == 70
ENEMY_SPEED         == 20      \* m/s
SHOOT_INTERVAL      == 7       \* s
ORBIT_SPEED         == 3       \* 0.3 rad/s; orbitAngle is counted in
                               \* 1/(10*UnitsPerSecond) rad
START_PITCH         == 30      \* degrees
TREASURE_POINTS     == 10
TWO_PI              == 126     \* 2*Math.PI, in the units of orbitAngle

\* MAX_CHARGE_TIME = 1.5 s, DOT_SPACING = 0.4 m, GROUND_Y = -1 m,
\* enemy muzzle = TARGET_HEIGHT 0.5 m + 0.6 m, default deltaTime 0.016 s
\* (below the time resolution), all in model units.
MaxChargeUnits == (3 * UnitsPerSecond) \div 2
DotSpacing     == (4 * PosPerMeter) \div 10
GroundY        == -1 * PosPerMeter
EnemyMuzzleY   == (11 * PosPerMeter) \div 10
DefaultDelta   == (16 * UnitsPerSecond) \div 1000
StartClock     == 1

VARIABLES
    now,             \* performance.now(), in time units
    pc,              \* position inside the frame
    deltaTime,       \* deltaTime of the frame being run
    lastFrameTime, startTime, gameActive, score, playerHealth, gameOverReason,
    projectiles,     \* projectile.js: projectiles
    fadingTrails,    \* projectile.js: fadingTrails
    targets,         \* targets.js: targets
    treasures,       \* treasures.js: treasures
    isCharging, chargeStartTime, currentCharge, keysPressed, pitch,
    nextId,          \* identity of the next object created
    round,           \* number of the round being played
    released,        \* visual releases of the targets of earlier rounds
    presses,         \* presses of the mouse button so far
    removed,         \* projectiles despawned during the current frame
    pass,            \* what the last collision pass saw and did
    signals,         \* the calls of endGame in the current round
    restart,         \* what the last startGame found, until the next frame
    trigger,         \* the last release of the button and the shot it gave:
                     \* held, charge, speed of the shot; released, wasActive
                     \* (gameActive at the release), seen (updateGame has run
                     \* since), releasedIn and firedIn (the rounds)
    lab,             \* the last direct call of an exported function
    sweep,           \* what the last pass of updateProjectiles met and moved
    timers           \* the setTimeout callbacks not yet run, in the order of
                     \* their creation, and the number of those that ran on
                     \* a target of an earlier round

vars == <<now, pc, deltaTime, lastFrameTime, startTime, gameActive, score,
          playerHealth, gameOverReason, projectiles, fadingTrails, targets,
          treasures, isCharging, chargeStartTime, currentCharge, keysPressed,
          pitch, nextId, round, released, presses, removed, pass, signals,
          restart, trigger, lab, sweep, timers>>

mainVars   == <<lastFrameTime, startTime, gameActive, score, playerHealth,
                gameOverReason>>
inputVars  == <<isCharging, chargeStartTime, currentCharge, keysPressed, pitch>>
entityVars == <<projectiles, fadingTrails, targets, treasures, nextId>>
ghostVars  == <<round, released, presses, removed, pass>>
auditVars  == <<signals, restart, trigger, lab, sweep, timers>>

\* ------------------------------------------------------------- helpers
Min(a, b) == IF a < b THEN a ELSE b
Max(a, b) == IF a > b THEN a ELSE b

\* utils.js clamp
clamp(value, lo, hi) == Max(lo, Min(hi, value))

\* Variant: removal by moving the last element into the hole.
SpliceSwap(s, i) == [k \in 1..(Len(s) - 1) |-> IF k = i THEN s[Len(s)] ELSE s[k]]

\* Array.prototype.splice(index, 1), 1-based
Splice(s, i) == [k \in 1..(Len(s) - 1) |-> IF k < i THEN s[k] ELSE s[k + 1]]

\* floor(Math.sqrt(n)), by bisection of lo..hi
RECURSIVE SqrtIn(_, _, _)
SqrtIn(n, lo, hi) ==
    IF lo >= hi THEN lo
    ELSE LET mid == (lo + hi + 1) \div 2
         IN  IF mid * mid <= n THEN SqrtIn(n, mid, hi) ELSE SqrtIn(n, lo, mid - 1)

Isqrt(n) == SqrtIn(n, 0, Min(n, 46340))

\* sin and cos of the barrel pitches the model reaches, in thousandths
SinDeg(d) == CASE d = 5 -> 87 [] d = 30 -> 500 [] d = 60 -> 866 [] d = 70 -> 940
CosDeg(d) == CASE d = 5 -> 996 [] d = 30 -> 866 [] d = 60 -> 500 [] d = 70 -> 342

NoPass == [ran |-> FALSE, scoreBefore |-> 0, healthBefore |-> 0, lenBefore |-> 0,
           destroyedBefore |-> {}, events |-> <<>>, unseen |-> {},
           atStart |-> {}, tested |-> <<>>, shared |-> {}]
NoSweep == [ran |-> FALSE, atStart |-> {}, moved |-> <<>>]
NoTimers == [pending |-> <<>>, stale |-> 0]

NoRestart == [ran |-> FALSE, projectiles |-> 0, fadingTrails |-> 0,
              wasActive |-> FALSE]
NoTrigger == [fired |-> FALSE, held |-> 0, charge |-> 0, speed |-> 0,
              released |-> FALSE, wasActive |-> FALSE, seen |-> FALSE,
              releasedIn |-> 0, firedIn |-> 0]
NoCall    == [fn |-> "none", serial |-> 0]

\* ------------------------------------------------------------ spawning
\* targets.js spawnTarget: the record pushed onto targets.  posAngle is the
\* angle the position of the mesh was last computed from (the mesh stands at
\* treasure + orbitRadius * (cos posAngle, 0, sin posAngle), at height
\* TARGET_HEIGHT).  releases, shots, sinceShot, lastGap, matched, rams and
\* destroyedAt record what happened to the target (destroyedAt: the frame of
\* the hit that destroyed it, 0: none), startAngle the angle it was spawned
\* at, elapsed the sum of the deltaTimes of the ticks that updated it and
\* resets the calls of resetTarget on it.
spawnTarget(startAngle, treasureIndex, shipIndex) ==
    [orbitAngle |-> startAngle, posAngle |-> startAngle,
     isMoving |-> TRUE, destroyed |-> FALSE,
     hits |-> 0, shootCooldown |-> 0,
     treasureIndex |-> treasureIndex, shipIndex |-> shipIndex,
     releases |-> 0, shots |-> 0, sinceShot |-> 0, lastGap |-> -1,
     matched |-> 0, rams |-> 0, destroyedAt |-> 0,
     startAngle |-> startAngle, elapsed |-> 0, resets |-> 0]

\* targets.js spawnTargets: shipsPerTreasure guards on a circle round each chest
spawnTargets(treasureCount, shipsPerTreasure) ==
    [k \in 1..(treasureCount * shipsPerTreasure) |->
        LET i == (k - 1) \div shipsPerTreasure
            j == (k - 1) % shipsPerTreasure
        IN  spawnTarget((j * TWO_PI) \div shipsPerTreasure, i, j)]

\* treasures.js spawnTreasures: count chests on a grid, then the mega chest.
\* (main.js hands the positions of the count chests to spawnTargets.)
\* collections counts the calls of collectTreasure on the chest.
spawnTreasures(count) ==
    [k \in 1..(count + 1) |->
        [collected |-> FALSE, isMegaChest |-> k = count + 1, collections |-> 0]]

\* projectile.js spawnProjectile: the record pushed onto projectiles.  id is
\* the identity of the object, index0 its position when pushed, firstInteg
\* and firstTest the frames of its first integration and of its first
\* collision test (0: none yet).  trailDots holds the dots of the trail,
\* oldest first, each dot named by its number in the order of laying;
\* dotsLaid counts the dots laid so far.
spawnProjectile(ps, id, type, y0, vy, vh) ==
    Append(ps, [id |-> id, type |-> type, y |-> y0, vy |-> vy, vh |-> vh,
                birthTime |-> now, alive |-> TRUE, trailDots |-> <<>>,
                dotsLaid |-> 0,
                distanceSinceLastDot |-> 0, index0 |-> Len(ps) + 1,
                firstInteg |-> 0, firstTest |-> 0])

\* ------------------------------------------------------------- removal
\* Variant: an index outside the registry is moved to the nearest one inside.
despawnProjectileClamped(index, st) ==
    IF Len(st.ps) = 0 THEN st
    ELSE LET i == clamp(index, 1, Len(st.ps))
         IN  [ps  |-> Splice(st.ps, i),
              fts |-> IF Len(st.ps[i].trailDots) > 0
                      THEN Append(st.fts, [id |-> st.ps[i].id, startFadeTime |-> now])
                      ELSE st.fts]

\* projectile.js despawnProjectile, on the pair of collections
despawnProjectile(index, st) ==
    IF index >= 1 /\ index <= Len(st.ps)
    THEN [ps  |-> Splice(st.ps, index),
          fts |-> IF Len(st.ps[index].trailDots) > 0
                  THEN Append(st.fts, [id |-> st.ps[index].id, startFadeTime |-> now])
                  ELSE st.fts]
    ELSE st

\* projectile.js killProjectile
killProjectile(index, ps) ==
    IF index >= 1 /\ index <= Len(ps)
    THEN [ps EXCEPT ![index].alive = FALSE]
    ELSE ps

\* ---------------------------------------------------------------- Init
InitOf(shipsPerTreasure) ==
    /\ now = StartClock
    /\ pc = "idle"
    /\ deltaTime = 0
    /\ lastFrameTime = 0
    /\ startTime = StartClock
    /\ gameActive = TRUE
    /\ score = 0
    /\ playerHealth = MAX_HEALTH
    /\ gameOverReason = "timeout"
    /\ projectiles = <<>>
    /\ fadingTrails = <<>>
    /\ targets = spawnTargets(TreasureCount, shipsPerTreasure)
    /\ treasures = spawnTreasures(TreasureCount)
    /\ isCharging = FALSE
    /\ chargeStartTime = 0
    /\ currentCharge = 0
    /\ keysPressed = [arrowup |-> FALSE, arrowdown |-> FALSE]
    /\ pitch = START_PITCH
    /\ nextId = 1
    /\ round = 1
    /\ released = {}
    /\ presses = 0
    /\ removed = {}
    /\ pass = NoPass
    /\ signals = <<>>
    /\ restart = NoRestart
    /\ trigger = NoTrigger
    /\ sweep = NoSweep
    /\ timers = NoTimers

Init == InitOf(ShipsPerTreasure) /\ lab = NoCall

\* The same construction with a larger flotilla round the chest.
InitSiege == InitOf(SiegeShips) /\ lab = NoCall

\* -------------------------------------------------- between the frames
\* Wall-clock time passes while the host is idle.
Pass(limit) ==
    /\ pc = "idle"
    /\ lastFrameTime > 0
    /\ now < limit
    /\ now - lastFrameTime < MaxDelta
    /\ now' = now + 1
    /\ UNCHANGED <<pc, deltaTime, mainVars, inputVars, entityVars, ghostVars,
                   auditVars>>

\* input.js onMouseDown (left button), at most limit times
onMouseDownUpTo(limit) ==
    /\ pc = "idle"
    /\ lastFrameTime > 0
    /\ presses < limit
    /\ presses' = presses + 1
    /\ isCharging' = TRUE
    /\ chargeStartTime' = now
    /\ currentCharge' = 0
    /\ UNCHANGED <<now, pc, deltaTime, mainVars, keysPressed, pitch, entityVars,
                   round, released, removed, pass, auditVars>>

onMouseDown == onMouseDownUpTo(MaxPresses)

\* input.js onMouseUp (left button)
onMouseUp ==
    /\ pc = "idle"
    /\ lastFrameTime > 0
    /\ isCharging
    /\ isCharging' = FALSE
    /\ trigger' = [NoTrigger EXCEPT !.held = now - chargeStartTime,
                                   !.released = TRUE, !.wasActive = gameActive,
                                   !.releasedIn = round]
    /\ UNCHANGED <<now, pc, deltaTime, mainVars, chargeStartTime, currentCharge,
                   keysPressed, pitch, entityVars, ghostVars, signals, restart,
                   lab, sweep,
                   timers>>

\* input.js onKeyDown / onKeyUp for the pitch keys
onKeyDown(key) ==
    /\ pc = "idle"
    /\ lastFrameTime > 0
    /\ ~keysPressed[key]
    /\ keysPressed' = [keysPressed EXCEPT ![key] = TRUE]
    /\ UNCHANGED <<now, pc, deltaTime, mainVars, isCharging, chargeStartTime,
                   currentCharge, pitch, entityVars, ghostVars, auditVars>>

onKeyUp(key) ==
    /\ pc = "idle"
    /\ lastFrameTime > 0
    /\ keysPressed[key]
    /\ keysPressed' = [keysPressed EXCEPT ![key] = FALSE]
    /\ UNCHANGED <<now, pc, deltaTime, mainVars, isCharging, chargeStartTime,
                   currentCharge, pitch, entityVars, ghostVars, auditVars>>

\* targets.js clearAllTargets: every target of the collection, destroyed or
\* not, has its mesh removed from the scene and disposed.
clearAllTargets(ts) == [k \in 1..Len(ts) |-> [ts[k] EXCEPT !.releases = @ + 1]]

\* projectile.js clearAllProjectiles: despawn from the back, then drop the
\* fading trails.
RECURSIVE clearLoop(_, _)
clearLoop(i, st) ==
    IF i = 0 THEN st ELSE clearLoop(i - 1, despawnProjectile(i, st))

\* Variant: the fading trails are left alone.
clearProjectilesOnly(ps, fts) == clearLoop(Len(ps), [ps |-> ps, fts |-> fts])

clearAllProjectiles(ps, fts) ==
    [ps |-> clearLoop(Len(ps), [ps |-> ps, fts |-> fts]).ps, fts |-> <<>>]

\* treasures.js clearAllTreasures: every chest leaves the scene and the
\* collection is emptied.
clearAllTreasures(cs) == SubSeq(cs, 1, 0)

\* main.js startGame, called by restartGame from the R key or the HUD button
startGame ==
    /\ pc = "idle"
    /\ lastFrameTime > 0
    /\ round < MaxRounds
    /\ gameActive' = TRUE
    /\ score' = 0
    /\ startTime' = now
    /\ playerHealth' = MAX_HEALTH
    /\ LET cleared == clearAllProjectiles(projectiles, fadingTrails)
       IN  /\ projectiles' = cleared.ps
           /\ fadingTrails' = cleared.fts
    /\ released' = released \cup
           {[round |-> round, index |-> k,
             destroyed |-> targets[k].destroyed,
             releases |-> clearAllTargets(targets)[k].releases] :
                k \in 1..Len(targets)}
    /\ treasures' = clearAllTreasures(treasures) \o spawnTreasures(TreasureCount)
    /\ targets' = spawnTargets(TreasureCount, ShipsPerTreasure)
    /\ round' = round + 1
    /\ signals' = <<>>
    /\ restart' = [ran |-> TRUE, projectiles |-> Len(projectiles),
                   fadingTrails |-> Len(fadingTrails), wasActive |-> gameActive]
    /\ UNCHANGED <<now, pc, deltaTime, lastFrameTime, gameOverReason, inputVars,
                   nextId, presses, removed, pass, trigger, lab, sweep,
                   timers>>

\* ------------------------------------------------------------ the frame
\* main.js endGame: the round-end signal, showGameOver with the message for
\* the reason.  timeUp, healthOut and rammed record what the caller had
\* found when it called: timer at 0 or below, player health at 0 or below,
\* a target that is not destroyed within the ship-collision radius; at is
\* the time of the call.
endGame(reason, timeUp, healthOut, rammed) ==
    [reason |-> reason, at |-> now,
     message |-> CASE reason = "collision" -> "Ship Collision!"
                   [] reason = "hit" -> "Hit by Enemy Fire!"
                   [] OTHER -> "Time's Up!",
     timeUp |-> timeUp, healthOut |-> healthOut, rammed |-> rammed]

\* Variant: updateGame is also called when the round is not active.
callsUpdateGameAlways(active, timeRemaining) == ~active \/ timeRemaining > 0

\* main.js animate, lines 339-352: updateGame is called in an active round
\* whose time is not up
callsUpdateGame(active, timeRemaining) == active /\ timeRemaining > 0

\* main.js animate, up to the call of updateGame
animate ==
    /\ pc = "idle"
    /\ lastFrameTime = 0 \/ now > lastFrameTime
    /\ deltaTime' = IF lastFrameTime > 0 THEN now - lastFrameTime ELSE DefaultDelta
    /\ lastFrameTime' = now
    /\ LET timeRemaining == GAME_DURATION * UnitsPerSecond - (now - startTime)
       IN  /\ pc' = IF callsUpdateGame(gameActive, timeRemaining)
                    THEN "input" ELSE "idle"
           /\ IF gameActive /\ timeRemaining <= 0
              THEN /\ gameOverReason' = "timeout"
                   /\ gameActive' = FALSE
                   /\ signals' = Append(signals,
                          endGame("timeout", TRUE, playerHealth <= 0, FALSE))
              ELSE UNCHANGED <<gameOverReason, gameActive, signals>>
    /\ restart' = NoRestart
    /\ UNCHANGED <<now, startTime, score, playerHealth, inputVars, entityVars,
                   ghostVars, trigger, lab, sweep,
                   timers>>

\* cannon.js setYawPitch: the barrel pitch
BarrelPitch(p) == clamp(p, CANNON_MIN_PITCH, CANNON_MAX_PITCH)

\* input.js updateAiming
updateAiming(p, dt) ==
    LET rotationAmount == (ROTATION_SPEED * dt) \div UnitsPerSecond
        up   == IF keysPressed.arrowup THEN p + rotationAmount ELSE p
        down == IF keysPressed.arrowdown THEN up - rotationAmount ELSE up
    IN  clamp(down, MIN_PITCH, MAX_PITCH)

\* Variant: the charge keeps growing with the hold.
updateChargingUnclamped(currentTime) ==
    IF isCharging THEN currentTime - chargeStartTime ELSE currentCharge

\* input.js updateCharging: the charge, counted in 1/MaxChargeUnits
updateCharging(currentTime) ==
    IF isCharging
    THEN clamp(currentTime - chargeStartTime, 0, MaxChargeUnits)
    ELSE currentCharge

\* main.js fireCannon, line 419: the speed for a charge, the charge counted
\* in 1/MaxChargeUnits
speed(charge) ==
    VelPerMps * MIN_POWER
        + (VelPerMps * (MAX_POWER - MIN_POWER) * charge) \div MaxChargeUnits

\* main.js fireCannon: speed from charge, muzzle and direction from the pitch
fireCannon(ps, id, charge, p) ==
    LET muzzleY == PosPerMeter + (22 * PosPerMeter * SinDeg(BarrelPitch(p))) \div 10000
    IN  spawnProjectile(ps, id, "player", muzzleY,
                        (speed(charge) * SinDeg(BarrelPitch(p))) \div 1000,
                        (speed(charge) * CosDeg(BarrelPitch(p))) \div 1000)

\* main.js updateGame, from updateShipMovement to fireCannon
updateInput ==
    /\ pc = "input"
    /\ pc' = "projectiles"
    /\ pitch' = updateAiming(pitch, deltaTime)
    /\ LET charge == updateCharging(now)
       IN  IF ~isCharging /\ charge > 0
           THEN /\ currentCharge' = 0
                /\ projectiles' = fireCannon(projectiles, nextId, charge, pitch')
                /\ nextId' = nextId + 1
                /\ trigger' = [trigger EXCEPT !.fired = TRUE, !.charge = charge,
                                              !.speed = speed(charge),
                                              !.seen = TRUE, !.firedIn = round]
           ELSE /\ currentCharge' = charge
                /\ trigger' = [trigger EXCEPT !.seen = trigger.released]
                /\ UNCHANGED <<projectiles, nextId>>
    /\ UNCHANGED <<now, deltaTime, mainVars, isCharging, chargeStartTime,
                   keysPressed, fadingTrails, targets, treasures, ghostVars,
                   signals, restart, lab, sweep,
                   timers>>

\* ---------------------------------------------------- updateProjectiles
\* Variant: a full trail refuses the new dot.
pushDotKeepOldest(dots, dot) ==
    IF Len(dots) >= TRAIL_MAX_POINTS THEN dots ELSE Append(dots, dot)

\* projectile.js updateProjectiles, lines 164-175: push the dot, then shift
\* the oldest out when the trail is longer than TRAIL_MAX_POINTS
pushDot(dots, dot) ==
    LET pushed == Append(dots, dot)
    IN  IF Len(pushed) > TRAIL_MAX_POINTS THEN Tail(pushed) ELSE pushed

\* Variant: the position advances by the velocity the tick started with.
MoveExplicit(p, dt) ==
    LET vy == p.vy + (GRAVITY_Y * dt) \div UnitsPerSecond
        y  == p.y + p.vy * dt
        dist == p.distanceSinceLastDot + Isqrt(p.vh * p.vh + vy * vy) * dt
        dot == dist >= DotSpacing
    IN  [p EXCEPT !.vy = vy, !.y = y,
                  !.trailDots = IF dot THEN pushDot(@, p.dotsLaid + 1) ELSE @,
                  !.dotsLaid = IF dot THEN @ + 1 ELSE @,
                  !.distanceSinceLastDot = IF dot THEN 0 ELSE dist]

\* projectile.js updateProjectiles, lines 141-178: gravity, position, trail
Move(p, dt) ==
    LET vy == p.vy + (GRAVITY_Y * dt) \div UnitsPerSecond
        y  == p.y + vy * dt
        dist == p.distanceSinceLastDot + Isqrt(p.vh * p.vh + vy * vy) * dt
        dot == dist >= DotSpacing
    IN  [p EXCEPT !.vy = vy, !.y = y,
                  !.trailDots = IF dot THEN pushDot(@, p.dotsLaid + 1) ELSE @,
                  !.dotsLaid = IF dot THEN @ + 1 ELSE @,
                  !.distanceSinceLastDot = IF dot THEN 0 ELSE dist]

\* Variant: a physics step that leaves out the projectiles born in this frame.
IntegrateLater(p, dt) ==
    IF p.birthTime = lastFrameTime THEN p
    ELSE [Move(p, dt) EXCEPT !.firstInteg = IF @ = 0 THEN lastFrameTime ELSE @]

\* the loop body for one live projectile: every projectile of the registry
\* that is flagged alive is moved, whatever its age
Integrate(p, dt) ==
    [Move(p, dt) EXCEPT !.firstInteg = IF @ = 0 THEN lastFrameTime ELSE @]

\* Variants: only one of the two tests.
ExpiredBelowGroundOnly(p) == p.y < GroundY
ExpiredByAgeOnly(p) == now - p.birthTime > MAX_LIFETIME * UnitsPerSecond

\* projectile.js updateProjectiles, lines 180-182: below ground or expired
Expired(p) ==
    p.y < GroundY \/ now - p.birthTime > MAX_LIFETIME * UnitsPerSecond

\* Variant: the loop runs over the indices from the front, i counting the
\* indices still to visit.
RECURSIVE integrateLoopForward(_, _, _)
integrateLoopForward(i, dt, st) ==
    LET j == Len(st.ps) + Cardinality(st.gone) - i + 1
    IN  IF i = 0 \/ j > Len(st.ps) THEN st
        ELSE IF ~st.ps[j].alive THEN integrateLoopForward(i - 1, dt, st)
        ELSE LET q == Integrate(st.ps[j], dt)
                 moved == [st EXCEPT !.ps[j] = q, !.moved = Append(@, q.id)]
             IN  IF Expired(q)
                 THEN LET d == despawnProjectile(j, [ps |-> moved.ps, fts |-> moved.fts])
                      IN  integrateLoopForward(i - 1, dt,
                              [moved EXCEPT !.ps = d.ps, !.fts = d.fts,
                                   !.gone = @ \cup
                                       {[id |-> q.id, y |-> q.y,
                                         age |-> now - q.birthTime]}])
                 ELSE integrateLoopForward(i - 1, dt, moved)

\* projectile.js updateProjectiles, the loop over the projectiles, from the
\* back; gone collects what it despawned, moved the identities of the
\* projectiles it integrated, in the order of the loop
RECURSIVE integrateLoop(_, _, _)
integrateLoop(i, dt, st) ==
    IF i = 0 THEN st
    ELSE IF ~st.ps[i].alive THEN integrateLoop(i - 1, dt, st)
    ELSE LET q == Integrate(st.ps[i], dt)
             moved == [st EXCEPT !.ps[i] = q, !.moved = Append(@, q.id)]
         IN  IF Expired(q)
             THEN LET d == despawnProjectile(i, [ps |-> moved.ps, fts |-> moved.fts])
                  IN  integrateLoop(i - 1, dt,
                          [moved EXCEPT !.ps = d.ps, !.fts = d.fts,
                               !.gone = @ \cup
                                   {[id |-> q.id, y |-> q.y,
                                     age |-> now - q.birthTime]}])
             ELSE integrateLoop(i - 1, dt, moved)

\* projectile.js updateProjectiles, the loop over the fading trails
StillFading(trail) == now - trail.startFadeTime < TRAIL_FADE_DURATION * UnitsPerSecond

updateProjectiles ==
    /\ pc = "projectiles"
    /\ pc' = "targets"
    /\ LET st == integrateLoop(Len(projectiles), deltaTime,
                     [ps |-> projectiles, fts |-> fadingTrails, gone |-> {},
                      moved |-> <<>>])
       IN  /\ projectiles' = st.ps
           /\ fadingTrails' = SelectSeq(st.fts, StillFading)
           /\ removed' = st.gone
           /\ sweep' = [ran |-> TRUE,
                        atStart |-> {projectiles[i].id : i \in 1..Len(projectiles)},
                        moved |-> st.moved]
    /\ UNCHANGED <<now, deltaTime, mainVars, inputVars, targets, treasures, nextId,
                   round, released, presses, pass, signals, restart, trigger, lab,
                   timers>>

\* -------------------------------------------------------- updateTargets
\* main.js shootEnemyProjectile, with the direction targets.js aims along:
\* the unit vector to the player, its y set to 0.2, normalised again
shootEnemyProjectile(ps, id) ==
    LET len == Isqrt(1040000)
    IN  spawnProjectile(ps, id, "enemy", EnemyMuzzleY,
                        (VelPerMps * ENEMY_SPEED * 200) \div len,
                        (VelPerMps * ENEMY_SPEED * 1000) \div len)

\* Variant: a guard that shoots whenever the player is detected.
readyWhenDetected(t, detected) == t.isMoving /\ detected

\* targets.js updateTargets, line 359: the player is inside the detection
\* radius and the cooldown has run out
readyToShoot(t, detected) == t.isMoving /\ detected /\ t.shootCooldown <= 0

\* Variant: the angle is kept inside one turn.
orbitStepWrapped(angle, dt) == (angle + ORBIT_SPEED * dt) % TWO_PI

\* targets.js updateTargets, line 332
orbitStep(angle, dt) == angle + ORBIT_SPEED * dt

\* targets.js updateTargets, the body of the loop for one target
updateTarget(t, dt, detected) ==
    IF t.destroyed THEN t
    ELSE LET moved == IF t.isMoving
                      THEN [t EXCEPT !.orbitAngle = orbitStep(@, dt),
                                     !.posAngle = orbitStep(t.orbitAngle, dt),
                                     !.elapsed = @ + dt]
                      ELSE [t EXCEPT !.elapsed = @ + dt]
             cooled == IF moved.isMoving /\ moved.shootCooldown > 0
                       THEN [moved EXCEPT !.shootCooldown = @ - dt,
                                          !.sinceShot = @ + dt]
                       ELSE [moved EXCEPT !.sinceShot = @ + dt]
         IN  IF readyToShoot(cooled, detected)
             THEN [cooled EXCEPT !.shootCooldown = SHOOT_INTERVAL * UnitsPerSecond,
                                 !.shots = @ + 1,
                                 !.lastGap = IF cooled.shots > 0 THEN cooled.sinceShot
                                             ELSE @,
                                 !.sinceShot = 0]
             ELSE cooled

RECURSIVE targetLoop(_, _, _, _)
targetLoop(k, dt, inRange, st) ==
    IF k > Len(st.ts) THEN st
    ELSE LET t == updateTarget(st.ts[k], dt, k \in inRange)
             fired == t.shots > st.ts[k].shots
         IN  targetLoop(k + 1, dt, inRange,
                 [ts |-> [st.ts EXCEPT ![k] = t],
                  ps |-> IF fired THEN shootEnemyProjectile(st.ps, st.id) ELSE st.ps,
                  id |-> IF fired THEN st.id + 1 ELSE st.id])

\* inRange: the targets whose distance to the player is below detectionRadius
updateTargets(inRange) ==
    /\ pc = "targets"
    /\ pc' = "treasures"
    /\ LET st == targetLoop(1, deltaTime, inRange,
                            [ts |-> targets, ps |-> projectiles, id |-> nextId])
       IN  /\ targets' = st.ts
           /\ projectiles' = st.ps
           /\ nextId' = st.id
    /\ removed' = {}
    /\ sweep' = NoSweep
    /\ UNCHANGED <<now, deltaTime, mainVars, inputVars, fadingTrails, treasures,
                   round, released, presses, pass, signals, restart, trigger, lab,
                   timers>>

\* ------------------------------------------------------------ treasures
\* Variant: the collected chests are not skipped.
checkTreasureCollectionAgain(inReach) ==
    LET open == {k \in 1..Len(treasures) : k \in inReach}
    IN  IF open = {} THEN 0 ELSE CHOOSE k \in open : \A m \in open : k <= m

\* treasures.js collectTreasure, on the chest
collectTreasure(t) == [t EXCEPT !.collected = TRUE, !.collections = @ + 1]

\* treasures.js getCollectedCount, getTotalCount
getCollectedCount(cs) == Cardinality({k \in 1..Len(cs) : cs[k].collected})
getTotalCount(cs) == Len(cs)

\* treasures.js checkTreasureCollection: the first chest not yet collected
\* that is within the collection radius (0: none)
checkTreasureCollection(inReach) ==
    LET open == {k \in 1..Len(treasures) : ~treasures[k].collected /\ k \in inReach}
    IN  IF open = {} THEN 0 ELSE CHOOSE k \in open : \A m \in open : k <= m

\* main.js updateGame, lines 388-398
collectTreasures(inReach) ==
    /\ pc = "treasures"
    /\ pc' = "collisions"
    /\ LET k == checkTreasureCollection(inReach)
       IN  IF k > 0
           THEN /\ treasures' = [treasures EXCEPT ![k] = collectTreasure(@)]
                /\ score' = score + TREASURE_POINTS
           ELSE UNCHANGED <<treasures, score>>
    /\ UNCHANGED <<now, deltaTime, lastFrameTime, startTime, gameActive,
                   playerHealth, gameOverReason, inputVars, projectiles,
                   fadingTrails, targets, nextId, ghostVars, auditVars>>

\* ------------------------------------------------------ checkCollisions
\* Variant: the hit is counted and the target destroyed on the fourth.
onTargetHitCounted(t) ==
    [t EXCEPT !.hits = @ + 1, !.matched = @ + 1,
              !.isMoving = t.hits + 1 < 4, !.destroyed = t.hits + 1 >= 4,
              !.releases = IF t.hits + 1 >= 4 THEN @ + 1 ELSE @,
              !.destroyedAt = IF t.hits + 1 >= 4 THEN lastFrameTime ELSE @]

\* main.js onTargetHit, on the target
onTargetHit(t) ==
    [t EXCEPT !.isMoving = FALSE, !.destroyed = TRUE,
              !.releases = @ + 1, !.matched = @ + 1,
              !.destroyedAt = lastFrameTime]

\* Variant: the last intersecting target instead of the first.
lastTargetHit(ts, touching) ==
    LET cand == {k \in 1..Len(ts) : ~ts[k].destroyed /\ k \in touching}
    IN  IF cand = {} THEN 0 ELSE CHOOSE k \in cand : \A m \in cand : k >= m

\* Variant: the destroyed targets are not skipped.
firstTargetHitAgain(ts, touching) ==
    LET cand == {k \in 1..Len(ts) : k \in touching}
    IN  IF cand = {} THEN 0 ELSE CHOOSE k \in cand : \A m \in cand : k <= m

\* main.js checkCollisions, lines 457-470: the first target of the registry
\* that is not destroyed and whose box the projectile's sphere meets (0: none)
firstTargetHit(ts, touching) ==
    LET cand == {k \in 1..Len(ts) : ~ts[k].destroyed /\ k \in touching}
    IN  IF cand = {} THEN 0 ELSE CHOOSE k \in cand : \A m \in cand : k <= m

\* Variant: the projectile is flagged dead and left in the registry.
killOnly(i, st) == [st EXCEPT !.ps = killProjectile(i, st.ps)]

\* Variant: the splice comes first, then the flag on index i.
removeHitSwapped(i, st) ==
    LET d == despawnProjectile(i, [ps |-> st.ps, fts |-> st.fts])
    IN  [st EXCEPT !.ps = killProjectile(i, d.ps), !.fts = d.fts]

\* main.js checkCollisions, lines 463-468 and 487-488
removeHit(i, st) ==
    LET d == despawnProjectile(i, [ps |-> killProjectile(i, st.ps), fts |-> st.fts])
    IN  [st EXCEPT !.ps = d.ps, !.fts = d.fts]

\* Variant: the round goes on at health 0.
playerDiedBelow(health) == health < 0

\* main.js checkCollisions, line 491: the test after a hit on the player
playerDied(health) == health <= 0

\* main.js checkCollisions, the loop over the projectiles, from the back.
\* touching[id]: the targets whose box the sphere of projectile id meets;
\* near: the projectiles closer to the player than hitRadius.
RECURSIVE collisionLoop(_, _, _, _)
collisionLoop(i, touching, near, st) ==
    IF i = 0 \/ st.returned THEN st
    ELSE IF ~st.ps[i].alive THEN collisionLoop(i - 1, touching, near, st)
    ELSE LET p == st.ps[i]
             seen == [st EXCEPT !.ps[i].firstTest =
                                    IF @ = 0 THEN lastFrameTime ELSE @,
                                !.tested = Append(@, p.id)]
         IN  IF p.type = "player"
             THEN LET k == firstTargetHit(st.ts, touching[p.id])
                  IN  IF k = 0 THEN collisionLoop(i - 1, touching, near, seen)
                      ELSE collisionLoop(i - 1, touching, near,
                             [removeHit(i, seen) EXCEPT
                                 !.score = @ + 1,
                                 !.ts[k] = onTargetHit(@),
                                 !.events = Append(@,
                                     [id |-> p.id, type |-> p.type, index |-> i,
                                      target |-> k,
                                      live |-> {m \in touching[p.id] :
                                                    ~st.ts[m].destroyed}])])
             ELSE IF p.type = "enemy"
             THEN IF p.id \notin near THEN collisionLoop(i - 1, touching, near, seen)
                  ELSE LET hit == [removeHit(i, seen) EXCEPT
                                      !.health = @ - 1,
                                      !.events = Append(@,
                                          [id |-> p.id, type |-> p.type, index |-> i,
                                           target |-> 0, live |-> {}])]
                       IN  IF playerDied(hit.health)
                           THEN [hit EXCEPT !.returned = TRUE]
                           ELSE collisionLoop(i - 1, touching, near, hit)
             ELSE collisionLoop(i - 1, touching, near, seen)

IdsOfType(ps, type) == {ps[i].id : i \in {j \in 1..Len(ps) : ps[j].type = type}}

checkCollisions(touching, near) ==
    /\ pc = "collisions"
    /\ pc' = "ships"
    /\ LET st == collisionLoop(Len(projectiles), touching, near,
                     [ps |-> projectiles, fts |-> fadingTrails, ts |-> targets,
                      score |-> score, health |-> playerHealth,
                      events |-> <<>>, returned |-> FALSE, tested |-> <<>>])
       IN  /\ projectiles' = st.ps
           /\ fadingTrails' = st.fts
           /\ targets' = st.ts
           /\ score' = st.score
           /\ playerHealth' = st.health
           /\ IF st.returned
              THEN /\ gameOverReason' = "hit"
                   /\ gameActive' = FALSE
                   /\ signals' = Append(signals,
                          endGame("hit", FALSE, st.health <= 0, FALSE))
              ELSE UNCHANGED <<gameOverReason, gameActive, signals>>
           /\ pass' = [ran |-> TRUE, scoreBefore |-> score,
                       healthBefore |-> playerHealth,
                       lenBefore |-> Len(projectiles),
                       destroyedBefore |-> {k \in 1..Len(targets) :
                                               targets[k].destroyed},
                       events |-> st.events,
                       unseen |-> {st.ps[i].id : i \in
                                     {j \in 1..Len(st.ps) :
                                        /\ st.ps[j].id \in near
                                        /\ st.ps[j].type \in {"enemy", "boss"}}},
                       atStart |-> {projectiles[i].id : i \in 1..Len(projectiles)},
                       tested |-> st.tested,
                       shared |-> {k \in 1..Len(targets) :
                           Cardinality({i \in 1..Len(projectiles) :
                               /\ projectiles[i].type = "player"
                               /\ k \in touching[projectiles[i].id]}) >= 2}]
    /\ UNCHANGED <<now, deltaTime, lastFrameTime, startTime, inputVars, treasures,
                   nextId, round, released, presses, removed, restart, trigger,
                   lab, sweep,
                   timers>>

\* ---------------------------------------------- checkPlayerShipCollisions
\* Variant: the destroyed targets are not skipped.
anyShipCollision(ts, close) ==
    LET cand == {k \in 1..Len(ts) : k \in close}
    IN  IF cand = {} THEN 0 ELSE CHOOSE k \in cand : \A m \in cand : k <= m

\* main.js checkPlayerShipCollisions: the first target that is not destroyed
\* and closer to the player than collisionRadius ends the round (0: none)
firstShipCollision(ts, close) ==
    LET cand == {k \in 1..Len(ts) : ~ts[k].destroyed /\ k \in close}
    IN  IF cand = {} THEN 0 ELSE CHOOSE k \in cand : \A m \in cand : k <= m

checkPlayerShipCollisions(close) ==
    /\ pc = "ships"
    /\ pc' = "idle"
    /\ LET k == firstShipCollision(targets, close)
       IN  IF k > 0
           THEN /\ gameOverReason' = "collision"
                /\ gameActive' = FALSE
                /\ targets' = [targets EXCEPT ![k].rams = @ + 1]
                /\ signals' = Append(signals,
                       endGame("collision", FALSE, playerHealth <= 0, TRUE))
           ELSE UNCHANGED <<gameOverReason, gameActive, targets, signals>>
    /\ pass' = NoPass
    /\ UNCHANGED <<now, deltaTime, lastFrameTime, startTime, score, playerHealth,
                   inputVars, projectiles, fadingTrails, treasures, nextId, round,
                   released, presses, removed, restart, trigger, lab, sweep,
                   timers>>

\* ---------------------------------------------------------- collision.js
\* Variant: touching does not count.
sphereVsAABBStrict(center, radius, min, max) ==
    LET dx == center.x - clamp(center.x, min.x, max.x)
        dy == center.y - clamp(center.y, min.y, max.y)
        dz == center.z - clamp(center.z, min.z, max.z)
    IN  dx * dx + dy * dy + dz * dz < radius * radius

\* collision.js sphereVsAABB
sphereVsAABB(center, radius, min, max) ==
    LET closestX == clamp(center.x, min.x, max.x)
        closestY == clamp(center.y, min.y, max.y)
        closestZ == clamp(center.z, min.z, max.z)
        dx == center.x - closestX
        dy == center.y - closestY
        dz == center.z - closestZ
        distanceSquared == dx * dx + dy * dy + dz * dz
    IN  distanceSquared <= radius * radius

\* --------------------------------------------------------- direct calls
\* The functions the modules export, called on their own.  index is counted
\* from 0, as in the code; lab keeps the call, serial telling it from the
\* call before.
callKillProjectile(index) ==
    /\ pc = "idle"
    /\ lastFrameTime > 0
    /\ projectiles' = killProjectile(index + 1, projectiles)
    /\ lab' = [fn |-> "killProjectile", index |-> index, serial |-> 1 - lab.serial]
    /\ UNCHANGED <<now, pc, deltaTime, mainVars, inputVars, fadingTrails, targets,
                   treasures, nextId, ghostVars, signals, restart, trigger, sweep,
                   timers>>

callDespawnProjectile(index) ==
    /\ pc = "idle"
    /\ lastFrameTime > 0
    /\ LET d == despawnProjectile(index + 1, [ps |-> projectiles, fts |-> fadingTrails])
       IN  /\ projectiles' = d.ps
           /\ fadingTrails' = d.fts
    /\ lab' = [fn |-> "despawnProjectile", index |-> index,
               serial |-> 1 - lab.serial]
    /\ UNCHANGED <<now, pc, deltaTime, mainVars, inputVars, targets, treasures,
                   nextId, ghostVars, signals, restart, trigger, sweep,
                   timers>>

\* One pass of the body of the loop of updateProjectiles (lines 141-178)
\* over the projectile on the bench, with deltaTime dt; t is the time
\* integrated so far and sq the sum of the squares of the deltaTimes.
callMove(dt) ==
    /\ lab.fn = "updateProjectiles"
    /\ lab.p.dotsLaid < MaxDots
    /\ lab' = [lab EXCEPT !.p = Move(@, dt), !.t = @ + dt, !.sq = @ + dt * dt]
    /\ UNCHANGED <<now, pc, deltaTime, mainVars, inputVars, entityVars, ghostVars,
                   signals, restart, trigger, sweep,
                   timers>>

callSphereVsAABB ==
    /\ lab.fn = "sphereVsAABB"
    /\ ~lab.done
    /\ lab' = [lab EXCEPT !.done = TRUE,
                          !.result = sphereVsAABB(lab.center, lab.radius,
                                                  lab.min, lab.max)]
    /\ UNCHANGED <<now, pc, deltaTime, mainVars, inputVars, entityVars, ghostVars,
                   signals, restart, trigger, sweep,
                   timers>>

\* ----------------------------------------------------- the respawn mode
\* main.js, first version (lines 1-224): a target that is hit stays in the
\* registry and is put at a fresh angle 300 ms later.  The delay in time
\* units, rounded up.
RespawnDelay == (300 * UnitsPerSecond + 999) \div 1000

\* Math.random() * Math.PI * 2, two of its values
FreshAngles == {0, TWO_PI \div 2}

\* targets.js hitTarget
hitTarget(t) == [t EXCEPT !.hits = @ + 1]

\* targets.js resetTarget, on the target
resetTarget(t, angle) ==
    [t EXCEPT !.orbitAngle = angle, !.posAngle = angle, !.resets = @ + 1]

\* main.js checkCollisions, first version, lines 178-189: the first target
\* of the registry whose box the projectile's sphere meets (0: none)
firstTargetMet(ts, touching) ==
    LET cand == {k \in 1..Len(ts) : k \in touching}
    IN  IF cand = {} THEN 0 ELSE CHOOSE k \in cand : \A m \in cand : k <= m

\* main.js onTargetHit, first version: score, hitTarget and the setTimeout
\* whose callback holds the target object, named here by the round that
\* spawned it and its place in that round's registry
onTargetHitRespawn(k, st) ==
    [st EXCEPT !.score = @ + 1,
               !.ts[k] = hitTarget(@),
               !.timers = Append(@, [round |-> round, index |-> k,
                                     due |-> now + RespawnDelay])]

\* main.js checkCollisions, first version, the loop over the projectiles
RECURSIVE collisionLoopRespawn(_, _, _)
collisionLoopRespawn(i, touching, st) ==
    IF i = 0 THEN st
    ELSE IF ~st.ps[i].alive THEN collisionLoopRespawn(i - 1, touching, st)
    ELSE LET p == st.ps[i]
             seen == [st EXCEPT !.ps[i].firstTest =
                                    IF @ = 0 THEN lastFrameTime ELSE @]
             k == firstTargetMet(st.ts, touching[p.id])
         IN  IF k = 0 THEN collisionLoopRespawn(i - 1, touching, seen)
             ELSE collisionLoopRespawn(i - 1, touching,
                      removeHit(i, onTargetHitRespawn(k, seen)))

\* main.js checkCollisions, first version: the last call of updateGame
checkCollisionsRespawn(touching) ==
    /\ pc = "treasures"
    /\ pc' = "idle"
    /\ LET st == collisionLoopRespawn(Len(projectiles), touching,
                     [ps |-> projectiles, fts |-> fadingTrails, ts |-> targets,
                      score |-> score, timers |-> timers.pending])
       IN  /\ projectiles' = st.ps
           /\ fadingTrails' = st.fts
           /\ targets' = st.ts
           /\ score' = st.score
           /\ timers' = [timers EXCEPT !.pending = st.timers]
    /\ UNCHANGED <<now, deltaTime, lastFrameTime, startTime, gameActive,
                   playerHealth, gameOverReason, inputVars, treasures, nextId,
                   ghostVars, signals, restart, trigger, lab, sweep>>

\* Variant: the callback looks its target up by its place in the registry.
runTimerByIndex(ts, timer, angle) ==
    IF timer.index <= Len(ts)
    THEN [ts EXCEPT ![timer.index] = resetTarget(@, angle)]
    ELSE ts

\* The callback of the setTimeout: resetTarget on the object it holds.  The
\* objects of an earlier round left the registry in clearAllTargets, so the
\* call reaches the registry only when the object is of the current round.
runTimer(ts, timer, angle) ==
    IF timer.round = round
    THEN [ts EXCEPT ![timer.index] = resetTarget(@, angle)]
    ELSE ts

\* The host runs the oldest callback that is due, between two frames.
onTimeout(angle) ==
    /\ pc = "idle"
    /\ Len(timers.pending) > 0
    /\ timers.pending[1].due <= now
    /\ targets' = runTimer(targets, timers.pending[1], angle)
    /\ timers' = [pending |-> Tail(timers.pending),
                  stale |-> IF timers.pending[1].round # round
                            THEN timers.stale + 1 ELSE timers.stale]
    /\ UNCHANGED <<now, pc, deltaTime, mainVars, inputVars, projectiles,
                   fadingTrails, treasures, nextId, ghostVars, signals, restart,
                   trigger, lab, sweep>>

\* ----------------------------------------------------------------- Next
Keys        == {"arrowup"}
TargetIdx   == 1..Len(targets)
TreasureIdx == 1..Len(treasures)
PlayerIds   == IdsOfType(projectiles, "player")
EnemyIds    == IdsOfType(projectiles, "enemy")

\* Every outcome of the geometric tests, the mouse and the restart, over a
\* short time, with the barrel at its starting pitch.
Next ==
    \/ Pass(MaxTime)
    \/ onMouseDown
    \/ onMouseUp
    \/ startGame
    \/ animate
    \/ updateInput
    \/ updateProjectiles
    \/ \E inRange \in SUBSET TargetIdx : updateTargets(inRange)
    \/ \E inReach \in SUBSET TreasureIdx : collectTreasures(inReach)
    \/ \E touching \in [PlayerIds -> SUBSET TargetIdx], near \in SUBSET EnemyIds :
            checkCollisions(touching, near)
    \/ \E close \in SUBSET TargetIdx : checkPlayerShipCollisions(close)

Spec == Init /\ [][Next]_vars

\* A long round under fire: the player does not shoot and keeps away from
\* the chests, is inside the detection radius of all guards or of none and
\* within the ship-collision radius of all or of none, and the guards' shots
\* pass near the player or not.
NextSiege ==
    \/ Pass(SiegeTime)
    \/ animate
    \/ updateInput
    \/ updateProjectiles
    \/ \E inRange \in {{}, TargetIdx} : updateTargets(inRange)
    \/ collectTreasures({})
    \/ \E near \in SUBSET EnemyIds :
            checkCollisions([id \in PlayerIds |-> {}], near)
    \/ \E close \in {{}, TargetIdx} : checkPlayerShipCollisions(close)

SpecSiege == InitSiege /\ [][NextSiege]_vars

\* A long round out of reach of the guards: the player raises the barrel,
\* charges and shoots, and the shot meets nothing.
NextFlight ==
    \/ Pass(SiegeTime)
    \/ onMouseDown
    \/ onMouseUp
    \/ \E key \in Keys : onKeyDown(key)
    \/ \E key \in Keys : onKeyUp(key)
    \/ animate
    \/ updateInput
    \/ updateProjectiles
    \/ updateTargets({})
    \/ collectTreasures({})
    \/ checkCollisions([id \in PlayerIds |-> {}], {})
    \/ checkPlayerShipCollisions({})

SpecFlight == Init /\ [][NextFlight]_vars

\* The opening of a round under fire, with killProjectile and
\* despawnProjectile called between the frames on indices outside the
\* registry: one below, the length, one above.
OutOfRange == {-1, Len(projectiles), Len(projectiles) + 1}

NextProbe ==
    \/ Pass(MaxTime)
    \/ animate
    \/ updateInput
    \/ updateProjectiles
    \/ \E inRange \in {{}, TargetIdx} : updateTargets(inRange)
    \/ collectTreasures({})
    \/ \E near \in SUBSET EnemyIds :
            checkCollisions([id \in PlayerIds |-> {}], near)
    \/ checkPlayerShipCollisions({})
    \/ \E index \in OutOfRange : callKillProjectile(index)
    \/ \E index \in OutOfRange : callDespawnProjectile(index)

SpecProbe == InitSiege /\ [][NextProbe]_vars

\* The bench: a projectile dropped from DropHeight with no vertical velocity
\* and moved by any sequence of deltaTimes, and sphereVsAABB on every
\* center, radius and box of a small lattice.
Coords == (0 - MaxCoord)..MaxCoord
Points == [x : Coords, y : Coords, z : Coords]
Boxes  == {b \in [min : Points, max : Points] :
              /\ b.min.x <= b.max.x
              /\ b.min.y <= b.max.y
              /\ b.min.z <= b.max.z}
Dropped(vh) ==
    [fn |-> "updateProjectiles",
     p |-> spawnProjectile(<<>>, 1, "player", DropHeight, 0, vh)[1],
     t |-> 0, sq |-> 0]

InitLab ==
    /\ InitOf(ShipsPerTreasure)
    /\ \/ lab \in {Dropped(vh) : vh \in {0, VelPerMps * MIN_POWER}}
       \/ \E c \in Points, r \in 0..MaxRadius, b \in Boxes :
              lab = [fn |-> "sphereVsAABB", center |-> c, radius |-> r,
                     min |-> b.min, max |-> b.max, done |-> FALSE,
                     result |-> FALSE]

\* Two shots in the air: the player charges and shoots twice, out of reach
\* of the guards' fire and hulls, with every outcome of the box tests and of
\* the chest test, and restarts.
VolleyTime    == MaxTime + 1
VolleyPresses == MaxPresses + 1

NextVolley ==
    \/ Pass(VolleyTime)
    \/ onMouseDownUpTo(VolleyPresses)
    \/ onMouseUp
    \/ startGame
    \/ animate
    \/ updateInput
    \/ updateProjectiles
    \/ updateTargets({})
    \/ \E inReach \in SUBSET TreasureIdx : collectTreasures(inReach)
    \/ \E touching \in [PlayerIds -> SUBSET TargetIdx] :
            checkCollisions(touching, {})
    \/ checkPlayerShipCollisions({})

SpecVolley == Init /\ [][NextVolley]_vars

\* The respawn mode over a short time: the mouse, the restart, every outcome
\* of the box tests and the callbacks of the hits.
NextRespawn ==
    \/ Pass(MaxTime)
    \/ onMouseDown
    \/ onMouseUp
    \/ startGame
    \/ animate
    \/ updateInput
    \/ updateProjectiles
    \/ updateTargets({})
    \/ \E touching \in [PlayerIds -> SUBSET TargetIdx] :
            checkCollisionsRespawn(touching)
    \/ \E angle \in FreshAngles : onTimeout(angle)

SpecRespawn == Init /\ [][NextRespawn]_vars

NextLab ==
    \/ \E dt \in 1..MaxDelta : callMove(dt)
    \/ callSphereVsAABB

SpecLab == InitLab /\ [][NextLab]_vars

\* -------------------------------------------------------------- claims
Registry == 1..Len(projectiles)
LifetimeUnits == MAX_LIFETIME * UnitsPerSecond
PlayerEvents == {n \in 1..Len(pass.events) : pass.events[n].type = "player"}
EnemyEvents  == {n \in 1..Len(pass.events) : pass.events[n].type = "enemy"}
Destroyed    == {k \in 1..Len(targets) : targets[k].destroyed}

\* C1, as amended: a projectile spawned by the player's fire request is
\* integrated by the physics step of the tick that spawned it (fireCannon
\* runs before updateProjectiles); a projectile spawned by a guard is not
\* integrated in its spawn tick; and every projectile, player's or guard's,
\* is collision-tested in its spawn tick unless that tick's pass had already
\* returned because player health reached 0.
C1_SpawnTick ==
    \A i \in Registry :
        LET p == projectiles[i]
        IN  /\ p.type = "player" /\ pc # "projectiles" => p.firstInteg = p.birthTime
            /\ p.type = "enemy" => p.firstInteg = 0 \/ p.firstInteg > p.birthTime
            /\ pc \in {"ships", "idle"} =>
                   p.firstTest = p.birthTime \/ playerHealth <= 0

\* C1 witness: after a tick, a player's projectile integrated and tested in
\* its spawn tick beside a guard's projectile tested in its spawn tick and
\* integrated only later.
C1_Witness ==
    /\ pc = "idle"
    /\ \E i \in Registry :
          /\ projectiles[i].type = "player"
          /\ projectiles[i].firstInteg = projectiles[i].birthTime
          /\ projectiles[i].firstTest = projectiles[i].birthTime
    /\ \E i \in Registry :
          /\ projectiles[i].type = "enemy"
          /\ projectiles[i].firstTest = projectiles[i].birthTime
          /\ projectiles[i].firstInteg > projectiles[i].birthTime

\* C1 as stated: no projectile is integrated or collision-tested in the tick
\* that spawned it.
C1_Original ==
    \A i \in Registry :
        /\ projectiles[i].firstInteg # projectiles[i].birthTime
        /\ projectiles[i].firstTest # projectiles[i].birthTime

\* C2: in a collision pass, every player projectile that meets one or more
\* targets that are not destroyed hits exactly one of them, the first in
\* registry order; the score rises by 1 per such projectile, the targets
\* destroyed by the pass are exactly the targets hit, each by one projectile,
\* and each such projectile leaves the registry, which shrinks by one record
\* per hit.
C2_FirstTargetOnly ==
    pass.ran =>
        /\ \A n \in PlayerEvents :
              LET e == pass.events[n]
              IN  /\ e.target \in e.live
                  /\ \A m \in e.live : e.target <= m
                  /\ e.target \notin pass.destroyedBefore
                  /\ \A i \in Registry : projectiles[i].id # e.id
                  /\ \A m \in 1..Len(pass.events) :
                        m # n => /\ pass.events[m].id # e.id
                                 /\ pass.events[m].target # e.target
        /\ score = pass.scoreBefore + Cardinality(PlayerEvents)
        /\ Destroyed = pass.destroyedBefore
                           \cup {pass.events[n].target : n \in PlayerEvents}
        /\ Len(projectiles) = pass.lenBefore - Len(pass.events)

\* C2 witness: a pass in which a player projectile met two live targets.
C2_Witness ==
    /\ pass.ran
    /\ \E n \in PlayerEvents : Cardinality(pass.events[n].live) >= 2

\* C3: within a round, no step changes the orbit angle of a destroyed
\* target, makes it shoot, matches it in a projectile collision test or
\* makes it collide with the player's ship, and it stays destroyed.
C3_DestroyedExcluded ==
    [][\A k \in 1..Len(targets) :
          targets[k].destroyed /\ round' = round =>
              /\ targets'[k].destroyed
              /\ targets'[k].orbitAngle = targets[k].orbitAngle
              /\ targets'[k].shots = targets[k].shots
              /\ targets'[k].matched = targets[k].matched
              /\ targets'[k].rams = targets[k].rams]_vars

\* C3 witness: a whole tick of the active round has run after the tick that
\* destroyed a target.
C3_Witness ==
    /\ pc = "idle"
    /\ gameActive
    /\ \E k \in Destroyed : lastFrameTime > targets[k].destroyedAt

\* C4 as stated: the visual object of every target, of this round and of the
\* rounds before, is released at most once, and exactly once when the target
\* is destroyed or its round has been cleared by a restart.
C4_ReleasedOnce ==
    /\ \A k \in 1..Len(targets) :
          /\ targets[k].releases <= 1
          /\ targets[k].destroyed => targets[k].releases = 1
    /\ \A r \in released : r.releases = 1

\* C5: two consecutive shots of a guard are separated by ticks whose
\* deltaTimes add up to shootInterval or more.
C5_ShootInterval ==
    \A k \in 1..Len(targets) :
        targets[k].lastGap = -1
            \/ targets[k].lastGap >= SHOOT_INTERVAL * UnitsPerSecond

\* C5 witness: a guard has fired twice.
C5_Witness ==
    \E k \in 1..Len(targets) : targets[k].shots >= 2 /\ targets[k].lastGap >= 0

\* C6, as amended: when updateProjectiles has run in a tick of an active
\* round, no projectile left in the registry was born more than MAX_LIFETIME
\* before that tick's clock.
C6_ExpiredAtTick ==
    (pc \in {"targets", "treasures", "collisions", "ships"}
         \/ (pc = "idle" /\ gameActive)) =>
        \A i \in Registry : lastFrameTime - projectiles[i].birthTime <= LifetimeUnits

\* C6 witness: updateProjectiles has just removed a projectile for its age,
\* above the ground.
C6_Witness ==
    /\ pc = "targets"
    /\ \E r \in removed : r.age > LifetimeUnits /\ r.y >= GroundY

\* C6 as stated: in every reachable state no projectile of the registry is
\* older than MAX_LIFETIME.
C6_Original ==
    \A i \in Registry : now - projectiles[i].birthTime <= LifetimeUnits

\* C7: no projectile of the registry is below -1: the physics step that
\* leaves a projectile there removes its record in the same call, so the
\* collision pass of the tick does not see it.
C7_BelowGroundRemoved ==
    /\ \A i \in Registry : projectiles[i].y >= GroundY
    /\ \A r \in removed : \A i \in Registry : projectiles[i].id # r.id

\* C7 witness: updateProjectiles has just removed a projectile below -1.
C7_Witness ==
    /\ pc = "targets"
    /\ \E r \in removed : r.y < GroundY

C9_DamageUntilDead ==
    pass.ran =>
        /\ playerHealth = pass.healthBefore - Cardinality(EnemyEvents)
        /\ \A n \in EnemyEvents :
              /\ \A i \in Registry : projectiles[i].id # pass.events[n].id
              /\ \A m \in EnemyEvents : m # n => pass.events[m].id # pass.events[n].id
        /\ Len(projectiles) = pass.lenBefore - Len(pass.events)
        /\ pass.unseen # {} => playerHealth = 0 /\ ~gameActive

\* C9 witness: a pass that took the last health point and left a guard's
\* projectile in range in the registry.
C9_Witness ==
    /\ pass.ran
    /\ EnemyEvents # {}
    /\ pass.unseen # {}

\* C9 as stated: after a collision pass no guard's projectile within
\* hitRadius of the player is left in the registry.
C9_Original ==
    pass.ran => pass.unseen = {}

\* C10, as amended: a projectile is addressed by its position in the
\* registry.  Positions follow the order of spawning, and a step moves a
\* projectile that stays in the registry down by the number of projectiles
\* removed below it, so its position never rises and is not stable.
C10_IndexShifts ==
    [][/\ \A i \in Registry : \A j \in 1..Len(projectiles') :
              projectiles[i].id = projectiles'[j].id =>
                  j = i - Cardinality({m \in 1..(i - 1) :
                              \A n \in 1..Len(projectiles') :
                                  projectiles'[n].id # projectiles[m].id})
       /\ \A i \in 1..Len(projectiles') : \A j \in 1..Len(projectiles') :
              i < j => projectiles'[i].id < projectiles'[j].id]_vars

\* C10 witness: a projectile below the position it was spawned at.
C10_Witness ==
    \E i \in Registry : projectiles[i].index0 > i

\* C10 as stated: from spawn to removal a projectile keeps its position, and
\* within a round a position is not passed on to another projectile.
C10_Original ==
    [][\A i \in Registry : \A j \in 1..Len(projectiles') :
          /\ projectiles[i].id = projectiles'[j].id => i = j
          /\ i = j /\ round' = round => projectiles[i].id = projectiles'[j].id]_vars

\* C11 as stated: when a tick of the round has left every objective
\* collected (collected count = total count), the round has ended and a
\* round-end signal has been sent.
C11_AllCollectedEnds ==
    pc = "idle" /\ getCollectedCount(treasures) = getTotalCount(treasures) =>
        ~gameActive /\ signals # <<>>

\* C12 as stated: every round-end signal of the round carries the reason
\* 'timeout' exactly when the timer had reached 0, 'hit' exactly when player
\* health had reached 0 from a guard's projectile, and 'collision' exactly
\* when a target that is not destroyed was within the ship-collision radius.
C12_ReasonMatchesCause ==
    \A n \in 1..Len(signals) :
        /\ signals[n].reason = "timeout" <=> signals[n].timeUp
        /\ signals[n].reason = "hit" <=> signals[n].healthOut
        /\ signals[n].reason = "collision" <=> signals[n].rammed

\* C13: right after a restart, whatever the state it was issued in, the
\* projectile registry and the fading trails are empty, the targets and the
\* objectives are the freshly spawned ones only (the former targets have all
\* been released), score is 0, player health is MAX_HEALTH and the round is
\* active.
C13_RestartClears ==
    restart.ran =>
        /\ projectiles = <<>>
        /\ fadingTrails = <<>>
        /\ Len(targets) = TreasureCount * ShipsPerTreasure
        /\ \A k \in 1..Len(targets) :
              /\ targets[k].releases = 0
              /\ ~targets[k].destroyed
              /\ targets[k].matched = 0 /\ targets[k].shots = 0
        /\ \A r \in released : r.round < round /\ r.releases >= 1
        /\ Len(treasures) = TreasureCount + 1
        /\ \A k \in 1..Len(treasures) :
              ~treasures[k].collected /\ treasures[k].collections = 0
        /\ score = 0
        /\ playerHealth = MAX_HEALTH
        /\ gameActive
        /\ signals = <<>>

\* C13 witness: a restart issued after game over, with projectiles in the
\* registry and a trail fading.
C13_Witness ==
    /\ restart.ran
    /\ ~restart.wasActive
    /\ restart.projectiles > 0
    /\ restart.fadingTrails > 0

\* C14: a call of killProjectile or of despawnProjectile with an index
\* outside 0..length-1 (negative, equal to the length or larger) leaves the
\* projectile registry, alive flags included, and the fading trails as they
\* were.
C14_InvalidIndexNoOp ==
    [][(/\ lab' # lab
        /\ lab'.fn \in {"killProjectile", "despawnProjectile"}
        /\ (lab'.index < 0 \/ lab'.index >= Len(projectiles)))
          => (projectiles' = projectiles /\ fadingTrails' = fadingTrails)]_vars

\* C14 witness: despawnProjectile has been called with the length of a
\* registry that holds live projectiles, while a trail was fading.
C14_Witness ==
    /\ lab.fn = "despawnProjectile"
    /\ lab.index = Len(projectiles)
    /\ Len(projectiles) >= 2
    /\ \A i \in Registry : projectiles[i].alive
    /\ fadingTrails # <<>>

\* C15 as stated, the hand-over: within a round, every projectile that a
\* step removes from the registry has a fading-trail record after the step,
\* also when it had laid no dot.
C15_TrailHandedOver ==
    [][\A i \in Registry :
          (/\ round' = round
           /\ \A j \in 1..Len(projectiles') :
                 projectiles'[j].id # projectiles[i].id)
             => (\E n \in 1..Len(fadingTrails') :
                    fadingTrails'[n].id = projectiles[i].id)]_vars

\* C16: the trail of a projectile, in the registry or on the bench, holds at
\* most TRAIL_MAX_POINTS dots, and they are the dots laid last, in the order
\* of laying: the oldest is the one dropped when the cap is passed.
TrailIsLatest(p) ==
    /\ Len(p.trailDots) = Min(p.dotsLaid, TRAIL_MAX_POINTS)
    /\ \A k \in 1..Len(p.trailDots) :
          p.trailDots[k] = p.dotsLaid - Len(p.trailDots) + k

C16_TrailCapped ==
    /\ \A i \in Registry : TrailIsLatest(projectiles[i])
    /\ lab.fn = "updateProjectiles" => TrailIsLatest(lab.p)

\* C16 witness: the projectile on the bench has laid more dots than the cap
\* and its trail starts after the first dots laid.
C16_Witness ==
    /\ lab.fn = "updateProjectiles"
    /\ lab.p.dotsLaid > TRAIL_MAX_POINTS + 1
    /\ Len(lab.p.trailDots) = TRAIL_MAX_POINTS
    /\ lab.p.trailDots[1] = lab.p.dotsLaid - TRAIL_MAX_POINTS + 1

\* C17, as amended: a projectile spawned with zero vertical velocity and
\* moved over ticks dt_1..dt_n of total time t has fallen by
\* 0.5 * 9.8 * (t^2 + dt_1^2 + ... + dt_n^2): the closed form plus a term
\* that depends on how t is divided.  (In model units twice the
\* displacement is GRAVITY_Y / UnitsPerSecond times t^2 + sq.)
C17_EulerDisplacement ==
    lab.fn = "updateProjectiles" =>
        /\ lab.p.vy = (GRAVITY_Y \div UnitsPerSecond) * lab.t
        /\ 2 * (lab.p.y - DropHeight)
               = (GRAVITY_Y \div UnitsPerSecond) * (lab.t * lab.t + lab.sq)

\* C17 witness: above the ground, a time of 4 units integrated in ticks of
\* different lengths.
C17_Witness ==
    /\ lab.fn = "updateProjectiles"
    /\ lab.p.y >= GroundY
    /\ lab.t = 4
    /\ lab.sq = 6

\* C17 as stated: above the ground the displacement is 0.5 * -9.8 * t^2,
\* however t is divided.
C17_Original ==
    lab.fn = "updateProjectiles" /\ lab.p.y >= GroundY =>
        2 * (lab.p.y - DropHeight) = (GRAVITY_Y \div UnitsPerSecond) * lab.t * lab.t

Gap(c, lo, hi) == IF c < lo THEN lo - c ELSE IF c > hi THEN c - hi ELSE 0

C20_CollectedOnce ==
    [][/\ \A k \in 1..Len(treasures') :
             /\ treasures'[k].collections <= 1
             /\ treasures'[k].collected <=> treasures'[k].collections = 1
       /\ getCollectedCount(treasures') <= getTotalCount(treasures')
       /\ round' = round =>
             /\ \A k \in 1..Len(treasures) :
                   treasures[k].collected => treasures'[k] = treasures[k]
             /\ getCollectedCount(treasures') >= getCollectedCount(treasures)
             /\ pc # "treasures" => treasures' = treasures]_vars

\* C20 witness: every objective has been collected, one per tick, and a
\* collision pass has run since.
C20_Witness ==
    /\ pc = "ships"
    /\ pass.ran
    /\ getCollectedCount(treasures) = getTotalCount(treasures)
    /\ score >= 2 * TREASURE_POINTS

\* C21: every release of the left button made while a round is active, once
\* updateGame has run after it in that round, has given a player projectile
\* (on that first tick), however the press and the release fell between the
\* ticks.
C21_ReleaseFires ==
    (/\ trigger.released
     /\ trigger.wasActive
     /\ trigger.releasedIn = round
     /\ trigger.seen)
        => (trigger.fired /\ trigger.firedIn = round)

Range(seq) == {seq[i] : i \in 1..Len(seq)}
Once(seq) == Cardinality(Range(seq)) = Len(seq)

\* C22: the integration pass moves every projectile that was in the registry
\* when it started exactly once, and the collision pass tests each of them at
\* most once and, unless it returns because the health ran out, all of them,
\* whatever the two passes remove on the way.
C22_PassesVisitOnce ==
    /\ sweep.ran => (Once(sweep.moved) /\ Range(sweep.moved) = sweep.atStart)
    /\ pass.ran =>
          /\ Once(pass.tested)
          /\ Range(pass.tested) \subseteq pass.atStart
          /\ playerHealth > 0 => Range(pass.tested) = pass.atStart

\* C22 witness: a collision pass over three projectiles that removed the
\* middle one, below one it had tested already, and went on to the third.
C22_Witness ==
    /\ pass.ran
    /\ playerHealth > 0
    /\ Len(pass.tested) = 3
    /\ Len(pass.events) = 1
    /\ pass.events[1].id = pass.tested[2]
    /\ pass.events[1].index = 2

\* C23: the orbitAngle of a guard that is not destroyed is its start angle
\* plus orbitSpeed times the sum of the deltaTimes of its ticks, however the
\* time was divided, and its mesh stands at the position of that angle.
C23_OrbitLinear ==
    \A k \in 1..Len(targets) :
        ~targets[k].destroyed =>
            /\ targets[k].orbitAngle =
                   targets[k].startAngle + ORBIT_SPEED * targets[k].elapsed
            /\ targets[k].posAngle = targets[k].orbitAngle

\* C23 witness: a guard past one full turn from angle 0, after an odd sum of
\* deltaTimes that ends with a tick of two units, so after ticks of unequal
\* length.
C23_Witness ==
    /\ pc = "treasures"
    /\ deltaTime = MaxDelta
    /\ \E k \in 1..Len(targets) :
          /\ ~targets[k].destroyed
          /\ targets[k].elapsed = SiegeTime - StartClock
          /\ targets[k].elapsed % MaxDelta # 0
          /\ targets[k].orbitAngle > TWO_PI

Pending(k) ==
    {j \in 1..Len(timers.pending) :
        timers.pending[j].round = round /\ timers.pending[j].index = k}

\* C24: in the respawn mode every hit of a target schedules one reset of
\* that target, so its hits are its resets done plus its resets pending, and
\* a reset scheduled in an earlier round resets no target of the new
\* registry (a target of the new round is never reset more often than hit).
C24_OneResetPerHit ==
    \A k \in 1..Len(targets) :
        targets[k].hits = targets[k].resets + Cardinality(Pending(k))

\* C24 witness: a reset scheduled by a hit of the first round has run in the
\* second round.
C24_Witness ==
    /\ round = 2
    /\ timers.stale = 1
    /\ timers.pending = <<>>
    /\ \E r \in released : r.round = 1

\* C25: playerHealth stays between 0 and MAX_HEALTH, also when more enemy
\* projectiles are within the hit radius than the player has health left,
\* and a round whose health is 0 is not active: it ended in the pass that
\* took the last point.
C25_HealthBounded ==
    /\ playerHealth >= 0
    /\ playerHealth <= MAX_HEALTH
    /\ playerHealth = 0 => ~gameActive
    /\ pass.ran /\ playerHealth = 0 =>
          /\ pass.healthBefore > 0
          /\ Len(signals) > 0

\* C25 witness: a pass that started with health 2 and three enemy
\* projectiles within the hit radius: two hits, the third left untested.
C25_Witness ==
    /\ pass.ran
    /\ pass.healthBefore = 2
    /\ Len(pass.events) = 2
    /\ pass.unseen # {}
    /\ playerHealth = 0
    /\ ~gameActive

\* C26: the score of a round is the number of its targets destroyed plus
\* TREASURE_POINTS for each of its chests collected; a target that two
\* projectiles meet in one collision pass counts once.
C26_ScoreCounts ==
    score = Cardinality(Destroyed) + TREASURE_POINTS * getCollectedCount(treasures)

\* C26 witness: a collision pass in which two player projectiles were
\* tested, both met the box of one target that was not destroyed, and the
\* score rose by one.
C26_Witness ==
    /\ pass.ran
    /\ Len(pass.tested) = 2
    /\ \E k \in pass.shared :
          /\ k \notin pass.destroyedBefore
          /\ targets[k].destroyed
    /\ score = pass.scoreBefore + 1

\* C27: every projectile of the registry is flagged alive, at the end of
\* every tick, between the phases of a tick and after every restart: the
\* collision pass despawns what it flags dead before it goes on.
C27_NoDeadLeft ==
    \A i \in Registry : projectiles[i].alive

\* C27 witness: a collision pass has flagged dead and removed a projectile
\* that was not the last of the registry, and the registry is not empty.
C27_Witness ==
    /\ pass.ran
    /\ Len(pass.events) = 1
    /\ pass.events[1].index < pass.lenBefore
    /\ Len(projectiles) >= 1
    /\ pass.events[1].id \notin {projectiles[i].id : i \in Registry}

\* C28 as stated: between one startGame and the next endGame runs at most
\* once, also in a tick whose collision pass takes the last health point
\* while a target that is not destroyed is within the ship-collision radius.
C28_SignalledOnce ==
    Len(signals) <= 1

\* C29: while the round is not active every step short of a restart, so
\* every tick, leaves the projectiles with their positions and velocities,
\* the angles, positions and cooldowns of the targets, the objectives, the
\* score and the player health as they are.
C29_FrozenAfterGameOver ==
    [][(~gameActive /\ round' = round) =>
          /\ projectiles' = projectiles
          /\ fadingTrails' = fadingTrails
          /\ Len(targets') = Len(targets)
          /\ \A k \in 1..Len(targets) :
                /\ targets'[k].orbitAngle = targets[k].orbitAngle
                /\ targets'[k].posAngle = targets[k].posAngle
                /\ targets'[k].shootCooldown = targets[k].shootCooldown
                /\ targets'[k].destroyed = targets[k].destroyed
          /\ treasures' = treasures
          /\ score' = score
          /\ playerHealth' = playerHealth
          /\ ~gameActive']_vars

\* C29 witness: a frame has run after the round ended, with a projectile
\* still in the registry.
C29_Witness ==
    /\ ~gameActive
    /\ pc = "idle"
    /\ signals # <<>>
    /\ lastFrameTime > signals[Len(signals)].at
    /\ Len(projectiles) >= 1

\* C30 as stated: a player projectile is spawned only on a release of the
\* button made in the round it is spawned in; a release made before the
\* restart fires nothing in the new round.
C30_NoStaleShot ==
    trigger.fired => trigger.firedIn = trigger.releasedIn

====
